---------------------------- MODULE Spec2Model ----------------------------
(***************************************************************************)
(* Model of the document question answering repository:                    *)
(*   src/src/docquery/ocr_processor.py  OCR engine abstraction             *)
(*   src/src/docqa/ext/pipeline.py      DocumentQuestionAnsweringPipeline  *)
(*                                                                         *)
(* Python values are represented as follows.  An optional value (None or   *)
(* a value v) is the sequence <<>> or <<v>>.  A word is a sequence of      *)
(* characters, so that str.strip() is computed and not assumed.  A box is  *)
(* a 4-tuple of integers.  A raised exception is a string naming its type, *)
(* "" when nothing was raised.                                             *)
(*                                                                         *)
(* Four specifications share the variables; each one leaves the variables  *)
(* of the other parts at their idle value:                                 *)
(*   Spec      one pipeline call (sanitize, preprocess, forward,           *)
(*             postprocess)                                                *)
(*   SpecPost  postprocess over freely chosen chunk outputs                *)
(*   SpecBox   the two normalize_box functions                             *)
(*   SpecOcr   construction of the OCR processors and apply_ocr            *)
(***************************************************************************)
EXTENDS Integers, Sequences, FiniteSets, TLC

VARIABLES
    \* ---- box normalization (SpecBox)
    nb,             \* [pc, box, width, height, ocr, pipeline]
    \* ---- OCR engine abstraction (SpecOcr)
    flags,          \* [TESSERACT_AVAILABLE, EASYOCR_AVAILABLE] module globals
    ctor,           \* outcome of the last processor construction
    ocr,            \* the last apply_ocr / apply_tesseract invocation
    \* ---- pipeline (Spec, SpecPost)
    pc,             \* position of the pipeline driver
    env,            \* the constructed pipeline and the module flags it reads
    inputs,         \* the input dict built by __call__
    kwargs,         \* the keyword parameters of the call
    postprocess_params, \* what _sanitize_parameters returned for postprocess
    doc,            \* words and boxes resolved by preprocess
    calls,          \* how often each external capability was invoked
    encoding,       \* the tokenizer's chunks (token layouts)
    span_idx,       \* loop variable of preprocess
    model_inputs,   \* the chunk yielded by preprocess, awaiting _forward
    all_outputs,    \* outputs collected by the driver for postprocess
    post,           \* locals and return value of postprocess
    error           \* exception propagated to the caller

nbVars   == <<nb>>
ocrVars  == <<flags, ctor, ocr>>
pipeVars == <<pc, env, inputs, kwargs, postprocess_params, doc, calls,
              encoding, span_idx, model_inputs, all_outputs, post, error>>
vars     == <<nb, flags, ctor, ocr, pc, env, inputs, kwargs,
              postprocess_params, doc, calls, encoding, span_idx,
              model_inputs, all_outputs, post, error>>

(***************************************************************************)
(* Bounds of the model.                                                    *)
(***************************************************************************)
MaxCoord      == 3   \* largest pixel coordinate of a box given to normalize_box
MaxDim        == 3   \* largest image width / height in SpecBox
MaxWordLen    == 2   \* characters per OCR word
MaxDetections == 2   \* detections returned by an OCR engine
MaxCalls == 2        \* apply_ocr calls on one EasyOCRProcessor
MaxWords      == 2   \* words of a caller supplied document
MaxSpans      == 2   \* chunks the tokenizer produces for one document
MaxLogit      == 1   \* logits are drawn from 0..MaxLogit
MaxTopK       == 2   \* largest top_k
MaxAnswerLen  == 2   \* largest max_answer_len

(***************************************************************************)
(* Generic Python helpers.                                                 *)
(***************************************************************************)
None == <<>>

Some(v) == <<v>>

IsNone(o) == o = <<>>

Min(a, b) == IF a <= b THEN a ELSE b

Max(a, b) == IF a >= b THEN a ELSE b

\* int(x) applied to the quotient a / b (b > 0): truncation toward zero.
IntDiv(a, b) == IF a >= 0 THEN a \div b ELSE -((-a) \div b)

\* Python 3 round(a / b) for b > 0: to nearest, ties to even.
RoundDiv(a, b) ==
    LET q == a \div b
        r == a % b
    IN  IF 2 * r < b THEN q
        ELSE IF 2 * r > b THEN q + 1
        ELSE IF q % 2 = 0 THEN q ELSE q + 1

\* [f(x) for x in s if keep(x)] on indices: the subsequence of s at the
\* positions not in drop, in order.
RECURSIVE DropIndices(_, _, _)
DropIndices(s, drop, i) ==
    IF i > Len(s) THEN <<>>
    ELSE IF i \in drop THEN DropIndices(s, drop, i + 1)
    ELSE <<s[i]>> \o DropIndices(s, drop, i + 1)

\* All sequences over S of length 0..n.
SeqsUpTo(S, n) == UNION {[1..k -> S] : k \in 0..n}

(***************************************************************************)
(* Box normalization.                                                      *)
(***************************************************************************)
Scale == 1000

NormalizeBoxNoClamp(box, width, height) ==
    << IntDiv(Scale * box[1], width),
       IntDiv(Scale * box[2], height),
       IntDiv(Scale * box[3], width),
       IntDiv(Scale * box[4], height) >>

\* pipeline.py normalize_box: no clamping.
normalize_box(box, width, height) ==
    << IntDiv(Scale * box[1], width),
       IntDiv(Scale * box[2], height),
       IntDiv(Scale * box[3], width),
       IntDiv(Scale * box[4], height) >>

Clamp(c) == Max(Min(c, Scale), 0)

\* OCRProcessor.normalize_box: truncate, then clamp to [0, 1000].
OCRProcessor_normalize_box(box, width, height) ==
    LET raw == << IntDiv(Scale * box[1], width),
                  IntDiv(Scale * box[2], height),
                  IntDiv(Scale * box[3], width),
                  IntDiv(Scale * box[4], height) >>
    IN  [i \in 1..4 |-> Clamp(raw[i])]


(***************************************************************************)
(* OCR engine abstraction: module flags and construction.                  *)
(***************************************************************************)
Backends == {"tesseract", "easyocr", "dummy"}

\* TesseractProcessor / EasyOCRProcessor / DummyProcessor .check_if_available:
\* the exception it raises, "" when it returns.
check_if_available(kind, fl) ==
    CASE kind = "tesseract" ->
            IF ~fl.TESSERACT_AVAILABLE THEN "NoOCRReaderFound" ELSE ""
      [] kind = "easyocr" ->
            IF ~fl.EASYOCR_AVAILABLE THEN "NoOCRReaderFound" ELSE ""
      [] OTHER -> ""

\* OCRProcessor.__init__(self, device), called with the positional
\* arguments args: binding fails unless exactly one is given.
OCRProcessor_init(kind, args, fl) ==
    IF Len(args) # 1
    THEN [raised |-> "TypeError", device |-> None, checked |-> FALSE]
    ELSE [raised |-> check_if_available(kind, fl),
          device |-> Some(args[1]), checked |-> TRUE]

\* cls(*args) for the three concrete classes.  Each __init__(self) takes
\* no argument and calls super().__init__() with none.
Processor_init(kind, args, fl) ==
    IF Len(args) # 0
    THEN [raised |-> "TypeError", instance |-> FALSE,
          device |-> None, checked |-> FALSE]
    ELSE LET base == OCRProcessor_init(kind, <<>>, fl)
         IN  [raised   |-> base.raised,
              instance |-> base.raised = "",
              device   |-> base.device,
              checked  |-> base.checked]

(***************************************************************************)
(* OCR engine abstraction: apply_ocr.                                      *)
(***************************************************************************)
Chars == {"a", " "}

IsSpace(c) == c = " "

\* str.strip(): drop leading and trailing whitespace.
RECURSIVE LStrip(_)
LStrip(w) ==
    IF w = <<>> THEN <<>>
    ELSE IF IsSpace(Head(w)) THEN LStrip(Tail(w)) ELSE w

RECURSIVE RStrip(_)
RStrip(w) ==
    IF w = <<>> THEN <<>>
    ELSE IF IsSpace(w[Len(w)]) THEN RStrip(SubSeq(w, 1, Len(w) - 1)) ELSE w

Strip(w) == RStrip(LStrip(w))

\* idx for idx, word in enumerate(words) if not word.strip()
IrrelevantIndices(words) == {i \in 1..Len(words) : Strip(words[i]) = <<>>}

\* zip(left, top, width, height) -> [x, y, x + w, y + h]
ActualBoxes(left, top, width, height) ==
    LET n == Min(Min(Len(left), Len(top)), Min(Len(width), Len(height)))
    IN  [i \in 1..n |->
            <<left[i], top[i], left[i] + width[i], top[i] + height[i]>>]

\* TesseractProcessor.apply_ocr on the dict pytesseract.image_to_data returned.
TesseractProcessor_apply_ocr(data, size) ==
    LET irrelevant == IrrelevantIndices(data.text)
        words  == DropIndices(data.text, irrelevant, 1)
        left   == DropIndices(data.left, irrelevant, 1)
        top    == DropIndices(data.top, irrelevant, 1)
        width  == DropIndices(data.width, irrelevant, 1)
        height == DropIndices(data.height, irrelevant, 1)
        actual == ActualBoxes(left, top, width, height)
        normalized == [i \in 1..Len(actual) |->
                          OCRProcessor_normalize_box(actual[i], size[1], size[2])]
    IN  IF Len(words) # Len(normalized)
        THEN [raised |-> "AssertionError", words |-> <<>>, boxes |-> <<>>]
        ELSE [raised |-> "", words |-> words, boxes |-> normalized]

\* pipeline.py apply_tesseract: the same steps with the module's own
\* normalize_box.
apply_tesseract(data, size) ==
    LET irrelevant == IrrelevantIndices(data.text)
        words  == DropIndices(data.text, irrelevant, 1)
        left   == DropIndices(data.left, irrelevant, 1)
        top    == DropIndices(data.top, irrelevant, 1)
        width  == DropIndices(data.width, irrelevant, 1)
        height == DropIndices(data.height, irrelevant, 1)
        actual == ActualBoxes(left, top, width, height)
        normalized == [i \in 1..Len(actual) |->
                          normalize_box(actual[i], size[1], size[2])]
    IN  IF Len(words) # Len(normalized)
        THEN [raised |-> "AssertionError", words |-> <<>>, boxes |-> <<>>]
        ELSE [raised |-> "", words |-> words, boxes |-> normalized]

\* EasyOCRProcessor.apply_ocr on the list reader.readtext returned; each
\* item is (quad, text, confidence) with quad = [tl, tr, br, bl].
\* boxes, words, acc = list(map(list, zip(*data))) needs three columns:
\* zip(*[]) yields none and the unpacking raises ValueError.
EasyOCRProcessor_apply_ocr(data, size) ==
    IF Len(data) = 0
    THEN [raised |-> "ValueError", words |-> <<>>, boxes |-> <<>>]
    ELSE
    LET boxes0 == [i \in 1..Len(data) |-> data[i].quad]
        words0 == [i \in 1..Len(data) |-> data[i].text]
        irrelevant == IrrelevantIndices(words0)
        words  == DropIndices(words0, irrelevant, 1)
        boxes  == DropIndices(boxes0, irrelevant, 1)
        \* tl + br: list concatenation of two [x, y] points
        actual == [i \in 1..Len(boxes) |-> boxes[i][1] \o boxes[i][3]]
        normalized == [i \in 1..Len(actual) |->
                          OCRProcessor_normalize_box(actual[i], size[1], size[2])]
    IN  IF Len(words) # Len(normalized)
        THEN [raised |-> "AssertionError", words |-> <<>>, boxes |-> <<>>]
        ELSE [raised |-> "", words |-> words, boxes |-> normalized]

\* if not self.reader: self.reader = easyocr.Reader(['en'], gpu=self.device > -1)
EasyOCRProcessor_reader(self) ==
    IF self.reader = "None"
    THEN [reader |-> "reader", created |-> 1, gpu |-> Some(self.device > -1)]
    ELSE [reader |-> self.reader, created |-> 0, gpu |-> None]

\* DummyProcessor.apply_ocr
DummyProcessor_apply_ocr(data, size) ==
    [raised |-> "NoOCRReaderFound", words |-> <<>>, boxes |-> <<>>]

(***************************************************************************)
(* What an OCR engine can return: a list of detections, each a text and a  *)
(* pixel rectangle (left, top, width, height).                             *)
(***************************************************************************)
Words == SeqsUpTo(Chars, MaxWordLen)

Rects == {<<l, 1, w, 2>> : l \in 0..1, w \in 1..2}

Detections == [text : Words, rect : Rects]

DetectionLists == SeqsUpTo(Detections, MaxDetections)

\* What the engine returns to a call that follows another on the same
\* processor: nothing, or one detection.
RepeatDetectionLists == {dets \in DetectionLists : Len(dets) <= 1}

ImageSizes == {<<2, 2>>, <<3, 4>>}

\* pytesseract.image_to_data(..., output_type="dict"): parallel lists.
TesseractData(dets) ==
    [text   |-> [i \in 1..Len(dets) |-> dets[i].text],
     left   |-> [i \in 1..Len(dets) |-> dets[i].rect[1]],
     top    |-> [i \in 1..Len(dets) |-> dets[i].rect[2]],
     width  |-> [i \in 1..Len(dets) |-> dets[i].rect[3]],
     height |-> [i \in 1..Len(dets) |-> dets[i].rect[4]]]

\* reader.readtext(...): (quad, text, confidence) with the four corners
\* clockwise from top-left.
EasyOCRData(dets) ==
    [i \in 1..Len(dets) |->
        LET r == dets[i].rect
        IN  [quad |-> << <<r[1], r[2]>>, <<r[1] + r[3], r[2]>>,
                         <<r[1] + r[3], r[2] + r[4]>>, <<r[1], r[2] + r[4]>> >>,
             text |-> dets[i].text,
             acc  |-> 1]]

\* The pixel box (left, top, right, bottom) of a detection.
PixelBox(det) ==
    <<det.rect[1], det.rect[2], det.rect[1] + det.rect[3], det.rect[2] + det.rect[4]>>

(***************************************************************************)
(* Idle values of the three parts.                                         *)
(***************************************************************************)
NbIdle ==
    nb = [pc |-> "idle", box |-> <<0, 0, 0, 0>>, width |-> 1, height |-> 1,
          ocr |-> <<0, 0, 0, 0>>, pipeline |-> <<0, 0, 0, 0>>]

CtorIdle ==
    ctor = [pc |-> "idle", kind |-> "", args |-> <<>>, raised |-> "",
            instance |-> FALSE, device |-> None, checked |-> FALSE]

OcrCallIdle ==
    ocr = [pc |-> "idle", backend |-> "", dets |-> <<>>, size |-> <<1, 1>>,
           raised |-> "", words |-> <<>>, boxes |-> <<>>,
           reader |-> "", created |-> 0, gpu |-> None,
           device |-> None, n |-> 0]

OcrIdle ==
    /\ flags = [TESSERACT_AVAILABLE |-> FALSE, EASYOCR_AVAILABLE |-> FALSE]
    /\ CtorIdle
    /\ OcrCallIdle

(***************************************************************************)
(* Tokenizer output.  A chunk is [CLS] question [SEP] words [SEP]; each    *)
(* token records the sequence it belongs to (sequence_ids: None for        *)
(* special tokens, 0 for the question, 1 for the document) and the index   *)
(* of its word (word_ids, 0-based, None where the token has no word).      *)
(* Token positions are 1-based here, 0-based in the source.                *)
(***************************************************************************)
ClsToken == [kind |-> "cls", sequence_id |-> None, word_id |-> None]

SepToken == [kind |-> "sep", sequence_id |-> None, word_id |-> None]

QuestionToken == [kind |-> "question", sequence_id |-> Some(0), word_id |-> None]

DocToken(w) == [kind |-> "doc", sequence_id |-> Some(1), word_id |-> Some(w)]

\* One chunk over the words lo..hi (0-based, empty when hi < lo).
ChunkTokens(lo, hi) ==
    <<ClsToken, QuestionToken, SepToken>>
        \o [i \in 1..(hi - lo + 1) |-> DocToken(lo + i - 1)]
        \o <<SepToken>>

\* Windows of m words stepping by step over n words.
RECURSIVE Windows(_, _, _, _)
Windows(n, m, step, lo) ==
    IF lo + m >= n THEN <<[lo |-> lo, hi |-> n - 1]>>
    ELSE <<[lo |-> lo, hi |-> lo + m - 1]>> \o Windows(n, m, step, lo + step)

\* What self.tokenizer(...) can return for n document words with
\* truncation="only_second" and return_overflowing_tokens=True: one chunk,
\* or overflow chunks of m words overlapping by m - step.
Encodings(n) ==
    IF n = 0 THEN {<<ChunkTokens(0, 0 - 1)>>}
    ELSE {enc \in {LET ws == Windows(n, m[1], m[2], 0)
                   IN  [i \in 1..Len(ws) |-> ChunkTokens(ws[i].lo, ws[i].hi)]
                   : m \in {mm \in (1..n) \X (1..n) : mm[2] <= mm[1]}}
             : Len(enc) <= MaxSpans}

\* p_mask[span]: tok != 1 for the sequence ids, then 0 at the CLS positions.
PMask(tokens) ==
    [i \in 1..Len(tokens) |->
        IF tokens[i].kind = "cls" THEN FALSE
        ELSE tokens[i].sequence_id # Some(1)]

WordIds(tokens) == [i \in 1..Len(tokens) |-> tokens[i].word_id]

SepBox == <<1000, 1000, 1000, 1000>>

ZeroBox == <<0, 0, 0, 0>>

\* bbox of one chunk: the word's box, [1000]*4 for SEP, [0]*4 otherwise.
BBox(tokens, boxes) ==
    [i \in 1..Len(tokens) |->
        IF tokens[i].sequence_id = Some(1) THEN boxes[tokens[i].word_id[1] + 1]
        ELSE IF tokens[i].kind = "sep" THEN SepBox
        ELSE ZeroBox]

\* The dict preprocess yields for one chunk.  span_encoding is updated with
\* every item left in image_features: a layout the feature extractor
\* returned and the resolution did not pop stays in the chunk, its "boxes"
\* under the key "boxes" (None: no such key), its "words" overwritten by
\* the yield's own "words".
Chunk(tokens, words, boxes, image_features) ==
    [tokens         |-> tokens,
     attention_mask |-> [i \in 1..Len(tokens) |-> 1],
     bbox           |-> BBox(tokens, boxes),
     boxes          |-> IF image_features = None THEN None
                        ELSE Some(image_features[1].boxes),
     p_mask         |-> PMask(tokens),
     word_ids       |-> WordIds(tokens),
     words          |-> words]

(***************************************************************************)
(* Model outputs.  The model is external: its start and end logits are     *)
(* arbitrary.  The vectors considered have at most one non-zero entry, at  *)
(* a token that can be part of an answer: of value 1..MaxLogit for the     *)
(* start logits and 1 for the end logits.                                  *)
(***************************************************************************)
Unmasked(chunk) == {i \in 1..Len(chunk.tokens) : ~chunk.p_mask[i]}

PeakVectors(chunk, values) ==
    {[i \in 1..Len(chunk.tokens) |-> 0]}
      \cup {[i \in 1..Len(chunk.tokens) |-> IF i = p THEN v ELSE 0]
              : p \in Unmasked(chunk), v \in values}

AllLogits(chunk) == PeakVectors(chunk, 1..MaxLogit) \X PeakVectors(chunk, {1})

\* Both peaks on the same token, with the same value.
DiagonalLogits(chunk) == {<<l, l>> : l \in PeakVectors(chunk, {1})}

\* _forward: pop the auxiliary fields, run the model, reattach.
forward(chunk, logits) ==
    [start_logits   |-> logits[1],
     end_logits     |-> logits[2],
     p_mask         |-> chunk.p_mask,
     word_ids       |-> chunk.word_ids,
     words          |-> chunk.words,
     attention_mask |-> chunk.attention_mask]

(***************************************************************************)
(* Answer-span selection (qa_helpers.select_starts_ends).                  *)
(***************************************************************************)
Sentinel == 0 - 10000

\* Insert index i into the index sequence sorted so that keys descend; i
\* goes behind every index whose key is at least key[i] (stable).
RECURSIVE InsertDesc(_, _, _)
InsertDesc(sorted, i, key) ==
    IF sorted = <<>> THEN <<i>>
    ELSE IF key[Head(sorted)] >= key[i]
         THEN <<Head(sorted)>> \o InsertDesc(Tail(sorted), i, key)
         ELSE <<i>> \o sorted

\* A variant that puts i in front of the indices with an equal key.
RECURSIVE InsertDescUnstable(_, _, _)
InsertDescUnstable(sorted, i, key) ==
    IF sorted = <<>> THEN <<i>>
    ELSE IF key[Head(sorted)] > key[i]
         THEN <<Head(sorted)>> \o InsertDescUnstable(Tail(sorted), i, key)
         ELSE <<i>> \o sorted

RECURSIVE SortIndices(_, _)
SortIndices(key, n) ==
    IF n = 0 THEN <<>> ELSE InsertDesc(SortIndices(key, n - 1), n, key)

RECURSIVE SortIndicesUnstable(_, _)
SortIndicesUnstable(key, n) ==
    IF n = 0 THEN <<>>
    ELSE InsertDescUnstable(SortIndicesUnstable(key, n - 1), n, key)

\* sorted(range(len(key)), key=..., reverse=True): the indices of key in
\* descending key order, equal keys in their original order.
SortedDesc(key) == SortIndices(key, Len(key))

\* seq[:k]
Prefix(seq, k) == SubSeq(seq, 1, Min(k, Len(seq)))

\* All (start, end) with start <= end and end - start < max_answer_len, in
\* row-major order.
RECURSIVE SpanPairs(_, _, _, _)
SpanPairs(n, max_answer_len, s, e) ==
    IF s > n THEN <<>>
    ELSE IF e > n \/ e - s >= max_answer_len
         THEN SpanPairs(n, max_answer_len, s + 1, s + 1)
         ELSE <<[start |-> s, end |-> e]>> \o SpanPairs(n, max_answer_len, s, e + 1)

select_starts_ends(start, end, p_mask, attention_mask, min_null_score, top_k, handle_impossible_answer, max_answer_len) ==
    LET n == Len(start)
        undesired(i) == p_mask[i] \/ attention_mask[i] = 0
        st == [i \in 1..n |-> IF undesired(i) THEN Sentinel ELSE start[i]]
        en == [i \in 1..n |-> IF undesired(i) THEN Sentinel ELSE end[i]]
        null == st[1] + en[1]
        pairs == SpanPairs(n, max_answer_len, 1, 1)
        score == [k \in 1..Len(pairs) |-> st[pairs[k].start] + en[pairs[k].end]]
        top == Prefix(SortedDesc(score), top_k)
    IN  [spans |-> [k \in 1..Len(top) |->
                       [start |-> pairs[top[k]].start,
                        end   |-> pairs[top[k]].end,
                        score |-> score[top[k]]]],
         min_null_score |-> Min(min_null_score, null)]

(***************************************************************************)
(* postprocess.                                                            *)
(***************************************************************************)
DefaultTopK == 1

DefaultMaxAnswerLen == 15

InitialMinNullScore == 1000000

\* " ".join(ws)
RECURSIVE Join(_)
Join(ws) ==
    IF ws = <<>> THEN <<>>
    ELSE IF Len(ws) = 1 THEN ws[1]
    ELSE ws[1] \o <<" ">> \o Join(Tail(ws))

\* words[a : b + 1] for 0 <= a
Slice(words, a, b) == SubSeq(words, a + 1, Min(b + 1, Len(words)))

\* A variant that reports the token positions instead of the word indices.
RECURSIVE ChunkAnswersTokenPositions(_, _, _)
ChunkAnswersTokenPositions(output, spans, k) ==
    IF k > Len(spans) THEN <<>>
    ELSE LET word_start == output.word_ids[spans[k].start]
             word_end   == output.word_ids[spans[k].end]
         IN  IF word_start # None /\ word_end # None
             THEN <<[score  |-> spans[k].score,
                     answer |-> Join(Slice(output.words, word_start[1], word_end[1])),
                     start  |-> spans[k].start - 1,
                     end    |-> spans[k].end - 1]>>
                  \o ChunkAnswersTokenPositions(output, spans, k + 1)
             ELSE ChunkAnswersTokenPositions(output, spans, k + 1)

\* The body of "for s, e, score in zip(starts, ends, scores)": the answers
\* one chunk contributes, in selection order.
RECURSIVE ChunkAnswers(_, _, _)
ChunkAnswers(output, spans, k) ==
    IF k > Len(spans) THEN <<>>
    ELSE LET word_start == output.word_ids[spans[k].start]
             word_end   == output.word_ids[spans[k].end]
         IN  IF word_start # None /\ word_end # None
             THEN <<[score  |-> spans[k].score,
                     answer |-> Join(Slice(output.words, word_start[1], word_end[1])),
                     start  |-> word_start[1],
                     end    |-> word_end[1]]>>
                  \o ChunkAnswers(output, spans, k + 1)
             ELSE ChunkAnswers(output, spans, k + 1)

\* The loop "for output in model_outputs" from output i on.
RECURSIVE MergeAnswers(_, _, _, _, _, _)
MergeAnswers(model_outputs, i, acc, top_k, handle_impossible_answer, max_answer_len) ==
    IF i > Len(model_outputs) THEN acc
    ELSE LET output == model_outputs[i]
             sel == select_starts_ends(output.start_logits, output.end_logits,
                                       output.p_mask, output.attention_mask,
                                       acc.min_null_score, top_k,
                                       handle_impossible_answer, max_answer_len)
         IN  MergeAnswers(model_outputs, i + 1,
                          [answers |-> acc.answers \o ChunkAnswers(output, sel.spans, 1),
                           min_null_score |-> sel.min_null_score],
                          top_k, handle_impossible_answer, max_answer_len)

\* A variant that reports the initial value instead of the running one.
NullAnswerInitialScore(min_null_score) ==
    [score |-> InitialMinNullScore, answer |-> <<>>, start |-> 0, end |-> 0]

\* {"score": min_null_score, "answer": "", "start": 0, "end": 0}
NullAnswer(min_null_score) ==
    [score |-> min_null_score, answer |-> <<>>, start |-> 0, end |-> 0]

\* The candidates before sorting: every chunk's answers, then the
\* no-answer record when handle_impossible_answer is set.
Candidates(model_outputs, top_k, handle_impossible_answer, max_answer_len) ==
    LET acc == MergeAnswers(model_outputs, 1,
                            [answers |-> <<>>, min_null_score |-> InitialMinNullScore],
                            top_k, handle_impossible_answer, max_answer_len)
    IN  [answers |-> IF handle_impossible_answer
                     THEN acc.answers \o <<NullAnswer(acc.min_null_score)>>
                     ELSE acc.answers,
         min_null_score |-> acc.min_null_score]

\* A variant that sorts without keeping the order of equal scores.
SortAnswersUnstable(answers) ==
    SortIndicesUnstable([i \in 1..Len(answers) |-> answers[i].score], Len(answers))

\* sorted(answers, key=score, reverse=True) as indices into answers.
SortAnswers(answers) ==
    SortedDesc([i \in 1..Len(answers) |-> answers[i].score])

\* A variant that keeps one answer too many.
TruncateOneMore(order, top_k) == Prefix(order, top_k + 1)

\* [:top_k]
Truncate(order, top_k) == Prefix(order, top_k)

\* A variant that always returns the list.
ResultShapeAlwaysList(n) == "list"

\* if len(answers) == 1: return answers[0]; return answers
ResultShape(n) == IF n = 1 THEN "record" ELSE "list"

postprocess(model_outputs, params) ==
    LET top_k == IF params.top_k = None THEN DefaultTopK ELSE params.top_k[1]
        handle == IF params.handle_impossible_answer = None THEN FALSE
                  ELSE params.handle_impossible_answer[1]
        mal == IF params.max_answer_len = None THEN DefaultMaxAnswerLen
               ELSE params.max_answer_len[1]
        cand == Candidates(model_outputs, top_k, handle, mal)
        order == Truncate(SortAnswers(cand.answers), top_k)
    IN  [done |-> TRUE,
         answers |-> cand.answers,
         min_null_score |-> cand.min_null_score,
         order |-> order,
         shape |-> ResultShape(Len(order)),
         result |-> [i \in 1..Len(order) |-> cand.answers[order[i]]]]

NoParams == [top_k |-> None, max_answer_len |-> None,
             handle_impossible_answer |-> None]

NoCalls == [load_image |-> 0, feature_extractor |-> 0, ocr |-> 0,
            tokenizer |-> 0, forward |-> 0]

NoPost == [done |-> FALSE, answers |-> <<>>, min_null_score |-> 0,
           order |-> <<>>, shape |-> "", result |-> <<>>]

NoError == [raised |-> "", stage |-> "", message |-> ""]

DefaultEnv == [VISION_LOADED |-> TRUE, TESSERACT_LOADED |-> TRUE,
               feature_extractor |-> "None", padding_side |-> "right",
               framework |-> "pt"]

PipeIdle ==
    /\ pc = "idle"
    /\ env = DefaultEnv
    /\ inputs = [image |-> "None", has_word_boxes |-> FALSE, word_boxes |-> None]
    /\ kwargs = NoParams
    /\ postprocess_params = NoParams
    /\ doc = [source |-> "", words |-> <<>>, boxes |-> <<>>, image_features |-> None]
    /\ calls = NoCalls
    /\ encoding = <<>>
    /\ span_idx = 0
    /\ model_inputs = None
    /\ all_outputs = <<>>
    /\ post = NoPost
    /\ error = NoError

(***************************************************************************)
(* _sanitize_parameters and preprocess.                                    *)
(***************************************************************************)
\* A variant whose checks accept 0.
sanitize_parameters_accepts_zero(kw) ==
    IF kw.top_k # None /\ kw.top_k[1] < 0
    THEN [raised |-> "ValueError",
          message |-> "top_k parameter should be >= 1",
          postprocess_params |-> NoParams]
    ELSE IF kw.max_answer_len # None /\ kw.max_answer_len[1] < 0
    THEN [raised |-> "ValueError",
          message |-> "max_answer_len parameter should be >= 1",
          postprocess_params |-> NoParams]
    ELSE [raised |-> "", message |-> "",
          postprocess_params |->
             [top_k |-> kw.top_k,
              max_answer_len |-> kw.max_answer_len,
              handle_impossible_answer |-> kw.handle_impossible_answer]]

\* The postprocess part of _sanitize_parameters(**kw).
sanitize_parameters(kw) ==
    IF kw.top_k # None /\ kw.top_k[1] < 1
    THEN [raised |-> "ValueError",
          message |-> "top_k parameter should be >= 1",
          postprocess_params |-> NoParams]
    ELSE IF kw.max_answer_len # None /\ kw.max_answer_len[1] < 1
    THEN [raised |-> "ValueError",
          message |-> "max_answer_len parameter should be >= 1",
          postprocess_params |-> NoParams]
    ELSE [raised |-> "", message |-> "",
          postprocess_params |->
             [top_k |-> kw.top_k,
              max_answer_len |-> kw.max_answer_len,
              handle_impossible_answer |-> kw.handle_impossible_answer]]

\* __call__: the input dict.  With a str question the dict is built from
\* the arguments and word_boxes is a key only when it is not None;
\* otherwise the caller's dict is passed on as it is.
call_inputs(form, image, word_boxes, given) ==
    IF form = "keywords"
    THEN [image |-> image,
          has_word_boxes |-> word_boxes # None,
          word_boxes |-> word_boxes]
    ELSE [image |-> image, has_word_boxes |-> given,
          word_boxes |-> IF given THEN word_boxes ELSE None]

Resolved(source, words, boxes, ocr_calls) ==
    [raised |-> "", message |-> "", source |-> source,
     words |-> words, boxes |-> boxes, ocr |-> ocr_calls]

Unresolved(raised, message, ocr_calls) ==
    [raised |-> raised, message |-> message, source |-> "",
     words |-> <<>>, boxes |-> <<>>, ocr |-> ocr_calls]

\* A variant that goes on with an empty document when nothing is given.
resolve_words_no_missing_input(input, image, image_features, tesseract_loaded, engine) ==
    IF input.has_word_boxes /\ input.word_boxes # None
    THEN Resolved("word_boxes",
                  [i \in 1..Len(input.word_boxes[1]) |-> input.word_boxes[1][i][1]],
                  [i \in 1..Len(input.word_boxes[1]) |-> input.word_boxes[1][i][2]],
                  0)
    ELSE Resolved("", <<>>, <<>>, 0)

\* preprocess, "words, boxes = None, None" to the end of the if chain.
\* image is the loaded image (None when there is none), image_features the
\* layout the feature extractor returned (None when it returned none),
\* engine what pytesseract does when it is invoked.
resolve_words(input, image, image_features, tesseract_loaded, engine) ==
    IF input.has_word_boxes
    THEN IF input.word_boxes = None
         THEN Unresolved("TypeError", "'NoneType' object is not iterable", 0)
         ELSE Resolved("word_boxes",
                  [i \in 1..Len(input.word_boxes[1]) |-> input.word_boxes[1][i][1]],
                  [i \in 1..Len(input.word_boxes[1]) |-> input.word_boxes[1][i][2]],
                  0)
    ELSE IF image_features # None
    THEN Resolved("feature_extractor", image_features[1].words,
                  image_features[1].boxes, 0)
    ELSE IF image # None
    THEN IF ~tesseract_loaded
         THEN Unresolved("ValueError", "pytesseract is not available", 0)
         ELSE IF engine.raised # ""
         THEN Unresolved(engine.raised, "", 1)
         ELSE LET r == apply_tesseract(TesseractData(engine.dets), image[1])
              IN  IF r.raised # "" THEN Unresolved(r.raised, "", 1)
                  ELSE Resolved("ocr", r.words, r.boxes, 1)
    ELSE Unresolved("ValueError", "You must provide an image or word_boxes", 0)

\* image_features after the resolution: the branch that uses the feature
\* extractor's layout pops it, the others leave image_features as it is.
remaining_features(image_features, source) ==
    IF source = "feature_extractor" THEN None ELSE image_features

(***************************************************************************)
(* The environment of one pipeline call.                                   *)
(***************************************************************************)
Word(i) == [j \in 1..i |-> "a"]

Box(i) == <<i, i, i + 1, i + 1>>

\* Documents a caller can pass as word_boxes: (word, box) pairs; a word
\* may be blank, the boxes are the caller's own numbers.
WordBoxItems == {<<Word(1), Box(10)>>, <<<<" ">>, Box(20)>>}

WordBoxLists ==
    {l \in SeqsUpTo(WordBoxItems, MaxWords) :
        \A i \in 1..(Len(l) - 1) : l[i] # l[i + 1]}

\* The document of SpecPost with n words.
Document(n) == [i \in 1..n |-> <<Word(i), Box(i)>>]

Images == {"None", "img", "bad"}

\* load_image (qa_helpers): the decoded image, here its size.
load_image(image) ==
    IF image = "img" THEN [raised |-> "", image |-> Some(<<2, 2>>)]
    ELSE [raised |-> "ValueError", image |-> None]

\* What the feature extractor returns: a layout of its own, or none.
FeatureLayout == [words |-> <<Word(2)>>, boxes |-> <<Box(30)>>]

feature_extractor(kind) == IF kind = "layout" THEN Some(FeatureLayout) ELSE None

\* What pytesseract does when invoked: it raises, or returns detections.
EngineOutcomes ==
    {[raised |-> "TesseractError", dets |-> <<>>]}
      \cup {[raised |-> "", dets |-> d] :
              d \in {<<>>,
                     <<[text |-> Word(1), rect |-> <<0, 1, 1, 2>>]>>,
                     <<[text |-> <<" ">>, rect |-> <<0, 1, 1, 2>>],
                       [text |-> Word(2), rect |-> <<1, 1, 2, 2>>]>>,
                     <<[text |-> Word(1), rect |-> <<0, 1, 1, 2>>],
                       [text |-> Word(2), rect |-> <<1, 1, 2, 2>>]>>}}

Envs == [VISION_LOADED : BOOLEAN, TESSERACT_LOADED : BOOLEAN,
         feature_extractor : {"None", "pixels", "layout"},
         padding_side : {"right", "left"}, framework : {"pt", "tf"}]

KwArgs == [top_k : {None, Some(0), Some(MaxTopK)},
           max_answer_len : {None, Some(0), Some(MaxAnswerLen)},
           handle_impossible_answer : {None, Some(TRUE)}]

(***************************************************************************)
(* Spec: one call of the pipeline.                                         *)
(***************************************************************************)
Init ==
    /\ pc = "idle"
    /\ env \in Envs
    /\ inputs = [image |-> "None", has_word_boxes |-> FALSE, word_boxes |-> None]
    /\ kwargs = NoParams
    /\ postprocess_params = NoParams
    /\ doc = [source |-> "", words |-> <<>>, boxes |-> <<>>, image_features |-> None]
    /\ calls = NoCalls
    /\ encoding = <<>>
    /\ span_idx = 0
    /\ model_inputs = None
    /\ all_outputs = <<>>
    /\ post = NoPost
    /\ error = NoError
    /\ NbIdle
    /\ OcrIdle

Raise(stage, raised, message) ==
    /\ pc' = "raised"
    /\ error' = [raised |-> raised, stage |-> stage, message |-> message]

\* __call__(image, question, word_boxes, **kwargs) up to super().__call__
Call ==
    /\ pc = "idle"
    /\ \E form \in {"keywords", "dict"}, image \in Images,
          wb \in {None} \cup {Some(l) : l \in WordBoxLists},
          given \in BOOLEAN, kw \in KwArgs :
          /\ inputs' = call_inputs(form, image, wb, given)
          /\ kwargs' = kw
    /\ pc' = "sanitize"
    /\ UNCHANGED <<nb, ocrVars, env, postprocess_params, doc, calls, encoding,
                   span_idx, model_inputs, all_outputs, post, error>>

\* The driver's call of _sanitize_parameters(**kwargs)
Sanitize ==
    /\ pc = "sanitize"
    /\ LET r == sanitize_parameters(kwargs)
       IN  IF r.raised # ""
           THEN /\ Raise("sanitize", r.raised, r.message)
                /\ UNCHANGED postprocess_params
           ELSE /\ pc' = "preprocess"
                /\ postprocess_params' = r.postprocess_params
                /\ UNCHANGED error
    /\ UNCHANGED <<nb, ocrVars, env, inputs, kwargs, doc, calls, encoding,
                   span_idx, model_inputs, all_outputs, post>>

\* preprocess from its first line to the tokenizer call: what runs when the
\* driver asks the generator for its first chunk.
PreprocessBegin ==
    /\ pc = "preprocess"
    /\ \E engine \in EngineOutcomes :
       LET hasImage == inputs.image # "None"
           loaded   == IF hasImage /\ env.VISION_LOADED
                       THEN load_image(inputs.image)
                       ELSE [raised |-> "", image |-> None]
           loads    == IF hasImage /\ env.VISION_LOADED THEN 1 ELSE 0
           image    == loaded.image
           useFeat  == image # None /\ env.feature_extractor # "None"
           features == IF useFeat THEN feature_extractor(env.feature_extractor)
                       ELSE None
           r        == resolve_words(inputs, image, features,
                                     env.TESSERACT_LOADED, engine)
           count    == [calls EXCEPT !.load_image = @ + loads,
                                     !.feature_extractor = @ + (IF useFeat THEN 1 ELSE 0)]
       IN  IF hasImage /\ ~env.VISION_LOADED
           THEN /\ Raise("preprocess", "ValueError", "PIL is not available")
                /\ UNCHANGED <<doc, calls, encoding>>
           ELSE IF loaded.raised # ""
           THEN /\ Raise("preprocess", loaded.raised, "unreadable image")
                /\ calls' = [calls EXCEPT !.load_image = @ + loads]
                /\ UNCHANGED <<doc, encoding>>
           ELSE IF r.raised # ""
           THEN /\ Raise("preprocess", r.raised, r.message)
                /\ calls' = [count EXCEPT !.ocr = @ + r.ocr]
                /\ UNCHANGED <<doc, encoding>>
           ELSE IF env.padding_side # "right"
           THEN /\ Raise("preprocess", "ValueError", "padding side")
                /\ calls' = [count EXCEPT !.ocr = @ + r.ocr]
                /\ doc' = [source |-> r.source, words |-> r.words, boxes |-> r.boxes,
                           image_features |-> remaining_features(features, r.source)]
                /\ UNCHANGED encoding
           ELSE /\ \E enc \in Encodings(Len(r.words)) : encoding' = enc
                /\ calls' = [count EXCEPT !.ocr = @ + r.ocr, !.tokenizer = @ + 1]
                /\ doc' = [source |-> r.source, words |-> r.words, boxes |-> r.boxes,
                           image_features |-> remaining_features(features, r.source)]
                /\ pc' = "spans"
                /\ UNCHANGED error
    /\ UNCHANGED <<nb, ocrVars, env, inputs, kwargs, postprocess_params,
                   span_idx, model_inputs, all_outputs, post>>

\* One iteration of "for span_idx in range(num_spans)" up to its yield.
PreprocessYield ==
    /\ pc = "spans"
    /\ model_inputs = None
    /\ span_idx < Len(encoding)
    /\ IF env.framework = "pt"
       THEN /\ model_inputs' =
                  Some(Chunk(encoding[span_idx + 1], doc.words, doc.boxes,
                             doc.image_features))
            /\ UNCHANGED <<pc, error>>
       ELSE /\ Raise("preprocess", "ValueError", "Unsupported: Tensorflow")
            /\ UNCHANGED model_inputs
    /\ UNCHANGED <<nb, ocrVars, env, inputs, kwargs, postprocess_params, doc,
                   calls, encoding, span_idx, all_outputs, post>>

\* A variant whose forward runs the model a second time when it raised.
ForwardWithRetry(diagonal) ==
    /\ pc = "spans"
    /\ model_inputs # None
    /\ \E attempts \in 1..2 :
          /\ calls' = [calls EXCEPT !.forward = @ + attempts]
          /\ \/ /\ \E logits \in (IF diagonal THEN DiagonalLogits(model_inputs[1])
                                             ELSE AllLogits(model_inputs[1])) :
                      all_outputs' = Append(all_outputs, forward(model_inputs[1], logits))
                /\ model_inputs' = None
                /\ span_idx' = span_idx + 1
                /\ UNCHANGED <<pc, error>>
             \/ /\ attempts = 2
                /\ Raise("forward", "RuntimeError", "model")
                /\ UNCHANGED <<model_inputs, span_idx, all_outputs>>
    /\ UNCHANGED <<nb, ocrVars, env, inputs, kwargs, postprocess_params, doc,
                   encoding, post>>

\* The driver's forward of the yielded chunk; the model returns logits or
\* raises.  Then the generator is resumed: span_idx advances.
ForwardWith(diagonal) ==
    /\ pc = "spans"
    /\ model_inputs # None
    /\ calls' = [calls EXCEPT !.forward = @ + 1]
    /\ \/ /\ \E logits \in (IF diagonal THEN DiagonalLogits(model_inputs[1])
                                       ELSE AllLogits(model_inputs[1])) :
                all_outputs' = Append(all_outputs, forward(model_inputs[1], logits))
          /\ model_inputs' = None
          /\ span_idx' = span_idx + 1
          /\ UNCHANGED <<pc, error>>
       \/ /\ Raise("forward", "RuntimeError", "model")
          /\ UNCHANGED <<model_inputs, span_idx, all_outputs>>
    /\ UNCHANGED <<nb, ocrVars, env, inputs, kwargs, postprocess_params, doc,
                   encoding, post>>

Forward == ForwardWith(TRUE)

\* postprocess(all_outputs, **postprocess_params) once the generator is
\* exhausted.
Postprocess ==
    /\ pc = "spans"
    /\ model_inputs = None
    /\ span_idx = Len(encoding)
    /\ post' = postprocess(all_outputs, postprocess_params)
    /\ pc' = "done"
    /\ UNCHANGED <<nb, ocrVars, env, inputs, kwargs, postprocess_params, doc,
                   calls, encoding, span_idx, model_inputs, all_outputs, error>>

Next ==
    \/ Call
    \/ Sanitize
    \/ PreprocessBegin
    \/ PreprocessYield
    \/ Forward
    \/ Postprocess

Spec == Init /\ [][Next]_vars

(***************************************************************************)
(* SpecPost: forward and postprocess of a tokenized document, for every    *)
(* valid parameter setting and every model output considered.              *)
(***************************************************************************)
PostParams == [top_k : {Some(k) : k \in 1..MaxTopK},
               max_answer_len : {None} \cup {Some(k) : k \in 1..MaxAnswerLen},
               handle_impossible_answer : {None, Some(TRUE)}]

PostInit ==
    /\ pc = "spans"
    /\ env = DefaultEnv
    /\ kwargs \in PostParams
    /\ postprocess_params = kwargs
    /\ \E n \in 0..MaxWords :
          LET d == Document(n)
          IN  /\ inputs = [image |-> "None", has_word_boxes |-> TRUE,
                           word_boxes |-> Some(d)]
              /\ doc = [source |-> "word_boxes",
                        words |-> [i \in 1..n |-> d[i][1]],
                        boxes |-> [i \in 1..n |-> d[i][2]],
                        image_features |-> None]
              /\ encoding \in Encodings(n)
    /\ calls = [NoCalls EXCEPT !.tokenizer = 1]
    /\ span_idx = 0
    /\ model_inputs = None
    /\ all_outputs = <<>>
    /\ post = NoPost
    /\ error = NoError
    /\ NbIdle
    /\ OcrIdle

ForwardAny == ForwardWith(FALSE)

PostNext ==
    \/ PreprocessYield
    \/ ForwardAny
    \/ Postprocess

SpecPost == PostInit /\ [][PostNext]_vars

(***************************************************************************)
(* SpecBox: both normalize_box functions on any box and image size.        *)
(***************************************************************************)
Coords == (0 - 1)..MaxCoord

BoxInit ==
    /\ \E b \in [1..4 -> Coords], w \in 1..MaxDim, h \in 1..MaxDim :
          nb = [pc |-> "input", box |-> b, width |-> w, height |-> h,
                ocr |-> <<0, 0, 0, 0>>, pipeline |-> <<0, 0, 0, 0>>]
    /\ OcrIdle
    /\ PipeIdle

\* OCRProcessor.normalize_box(box, width, height)
NormalizeOCR ==
    /\ nb.pc \in {"input", "pipeline"}
    /\ nb' = [nb EXCEPT
                !.ocr = OCRProcessor_normalize_box(nb.box, nb.width, nb.height),
                !.pc = IF nb.pc = "input" THEN "ocr" ELSE "both"]
    /\ UNCHANGED <<ocrVars, pipeVars>>

\* pipeline.normalize_box(box, width, height)
NormalizePipeline ==
    /\ nb.pc \in {"input", "ocr"}
    /\ nb' = [nb EXCEPT
                !.pipeline = normalize_box(nb.box, nb.width, nb.height),
                !.pc = IF nb.pc = "input" THEN "pipeline" ELSE "both"]
    /\ UNCHANGED <<ocrVars, pipeVars>>

BoxNext == NormalizeOCR \/ NormalizePipeline

SpecBox == BoxInit /\ [][BoxNext]_vars

(***************************************************************************)
(* SpecOcr: one construction or one OCR invocation, from any module state. *)
(***************************************************************************)
OcrInit ==
    /\ flags \in [TESSERACT_AVAILABLE : BOOLEAN, EASYOCR_AVAILABLE : BOOLEAN]
    /\ CtorIdle
    /\ OcrCallIdle
    /\ NbIdle
    /\ PipeIdle

Devices == {0 - 1, 0}

\* TesseractProcessor(*args), EasyOCRProcessor(*args), DummyProcessor(*args)
Construct ==
    /\ ctor.pc = "idle"
    /\ ocr.pc = "idle"
    /\ \E kind \in Backends, args \in SeqsUpTo(Devices, 1) :
          LET r == Processor_init(kind, args, flags)
          IN  ctor' = [pc |-> "done", kind |-> kind, args |-> args,
                       raised |-> r.raised, instance |-> r.instance,
                       device |-> r.device, checked |-> r.checked]
    /\ UNCHANGED <<nb, flags, ocr, pipeVars>>

OcrReturn(backend, dets, size, r, rd) ==
    ocr' = [pc |-> "done", backend |-> backend, dets |-> dets, size |-> size,
            raised |-> r.raised, words |-> r.words, boxes |-> r.boxes,
            reader |-> rd.reader, created |-> rd.created, gpu |-> rd.gpu,
            device |-> rd.device, n |-> rd.n]

NoReader == [reader |-> "", created |-> 0, gpu |-> None, device |-> None, n |-> 1]

\* TesseractProcessor.apply_ocr(image)
TesseractApplyOcr ==
    /\ ctor.pc = "idle"
    /\ ocr.pc = "idle"
    /\ \E dets \in DetectionLists, size \in ImageSizes :
          OcrReturn("tesseract", dets, size,
                    TesseractProcessor_apply_ocr(TesseractData(dets), size),
                    NoReader)
    /\ UNCHANGED <<nb, flags, ctor, pipeVars>>

\* EasyOCRProcessor.apply_ocr(image): the first call on a receiver with
\* the attributes __init__ assigns (self.device, self.reader = None), or
\* the next call on the receiver of the call before.  ocr.created counts
\* the easyocr.Reader objects created for the receiver, ocr.gpu is the gpu
\* argument of the last one.
EasyOCRApplyOcr ==
    /\ ctor.pc = "idle"
    /\ \/ ocr.pc = "idle"
       \/ ocr.pc = "done" /\ ocr.backend = "easyocr" /\ ocr.n < MaxCalls
    /\ \E dets \in (IF ocr.pc = "idle" THEN DetectionLists ELSE RepeatDetectionLists),
          size \in ImageSizes, device \in Devices :
          LET self == IF ocr.pc = "idle"
                      THEN [reader |-> "None", device |-> device]
                      ELSE [reader |-> ocr.reader, device |-> ocr.device[1]]
              rd   == EasyOCRProcessor_reader(self)
          IN  /\ ocr.pc = "done" => device = ocr.device[1]
              /\ OcrReturn("easyocr", dets, size,
                           EasyOCRProcessor_apply_ocr(EasyOCRData(dets), size),
                           [reader  |-> rd.reader,
                            created |-> ocr.created + rd.created,
                            gpu     |-> IF rd.created = 1 THEN rd.gpu ELSE ocr.gpu,
                            device  |-> Some(self.device),
                            n       |-> ocr.n + 1])
    /\ UNCHANGED <<nb, flags, ctor, pipeVars>>

\* DummyProcessor.apply_ocr(image)
DummyApplyOcr ==
    /\ ctor.pc = "idle"
    /\ ocr.pc = "idle"
    /\ \E size \in ImageSizes :
          OcrReturn("dummy", <<>>, size,
                    DummyProcessor_apply_ocr(<<>>, size), NoReader)
    /\ UNCHANGED <<nb, flags, ctor, pipeVars>>

\* pipeline.apply_tesseract(image, lang, tesseract_config)
PipelineApplyTesseract ==
    /\ ctor.pc = "idle"
    /\ ocr.pc = "idle"
    /\ \E dets \in DetectionLists, size \in ImageSizes :
          OcrReturn("pipeline", dets, size,
                    apply_tesseract(TesseractData(dets), size), NoReader)
    /\ UNCHANGED <<nb, flags, ctor, pipeVars>>

OcrNext ==
    \/ Construct
    \/ TesseractApplyOcr
    \/ EasyOCRApplyOcr
    \/ DummyApplyOcr
    \/ PipelineApplyTesseract

SpecOcr == OcrInit /\ [][OcrNext]_vars

(***************************************************************************)
(* C8.                                                                     *)
(***************************************************************************)
BoxDim(i) == IF i \in {1, 3} THEN nb.width ELSE nb.height

IsTruncation(r, a, b) ==
    IF a >= 0 THEN r * b <= a /\ a < (r + 1) * b
              ELSE r * b >= a /\ a > (r - 1) * b

\* out is the truncation of a / b clamped to [0, 1000].
IsClampedTruncation(out, a, b) ==
    \/ out = 0 /\ a < b
    \/ out = Scale /\ a >= Scale * b
    \/ out \in 1..(Scale - 1) /\ out * b <= a /\ a < (out + 1) * b

AllWhitespace(w) == \A i \in 1..Len(w) : w[i] = " "

NonBlank(d) == ~AllWhitespace(d.text)

\* C9 as stated: every apply_ocr of a real backend returns, for any
\* detection list, as many boxes as words, no blank word, and with the
\* i-th word the normalized box of the detection it came from.
C9_AlignedNonBlankForEveryDetectionList ==
    (ocr.pc = "done" /\ ocr.backend \in {"tesseract", "easyocr", "pipeline"}) =>
        LET kept == SelectSeq(ocr.dets, NonBlank)
        IN  /\ ocr.raised = ""
            /\ Len(ocr.words) = Len(ocr.boxes)
            /\ \A i \in 1..Len(ocr.words) : ~AllWhitespace(ocr.words[i])
            /\ Len(ocr.words) = Len(kept)
            /\ \A i \in 1..Len(kept) :
                  /\ ocr.words[i] = kept[i].text
                  /\ \A j \in 1..4 :
                        LET c == PixelBox(kept[i])[j]
                            d == IF j \in {1, 3} THEN ocr.size[1] ELSE ocr.size[2]
                        IN  IF ocr.backend = "pipeline"
                            THEN IsTruncation(ocr.boxes[i][j], Scale * c, d)
                            ELSE IsClampedTruncation(ocr.boxes[i][j], Scale * c, d)

(***************************************************************************)
(* C10.                                                                    *)
(***************************************************************************)
Available(kind) ==
    IF kind = "tesseract" THEN flags.TESSERACT_AVAILABLE
                          ELSE flags.EASYOCR_AVAILABLE

\* C10 as stated: constructing the Tesseract or EasyOCR processor runs the
\* availability check; it raises NoOCRReaderFound when the dependency is
\* unavailable and yields an instance when it is available.
C10_ConstructionChecksAvailability ==
    (ctor.pc = "done" /\ ctor.kind \in {"tesseract", "easyocr"}) =>
        /\ ctor.checked
        /\ Available(ctor.kind) => (ctor.raised = "" /\ ctor.instance)
        /\ ~Available(ctor.kind) => (ctor.raised = "NoOCRReaderFound" /\ ~ctor.instance)

(***************************************************************************)
(* Claims about the pipeline call (Spec).                                  *)
(***************************************************************************)
InvalidParameters ==
    \/ kwargs.top_k # None /\ kwargs.top_k[1] < 1
    \/ kwargs.max_answer_len # None /\ kwargs.max_answer_len[1] < 1

Sanitized == pc \notin {"idle", "sanitize"}

\* C1: once parameter sanitization has run on a call with top_k < 1 or
\* max_answer_len < 1, the call has failed there with ValueError, and the
\* image was not loaded, no feature extraction, OCR, tokenization or forward
\* pass has happened and no chunk exists.
C1_InvalidParametersFailBeforeAnyWork ==
    (Sanitized /\ InvalidParameters) =>
        /\ pc = "raised"
        /\ error.raised = "ValueError"
        /\ error.stage = "sanitize"
        /\ calls = NoCalls
        /\ model_inputs = None
        /\ all_outputs = <<>>
        /\ ~post.done

\* A call with top_k = 0 on an image that would otherwise be OCR'd has
\* failed in sanitization.
C1_Witness ==
    /\ pc = "raised"
    /\ error.stage = "sanitize"
    /\ kwargs.top_k = Some(0)
    /\ inputs.image = "img"
    /\ ~inputs.has_word_boxes
    /\ env.VISION_LOADED /\ env.TESSERACT_LOADED

CallerWords == [i \in 1..Len(inputs.word_boxes[1]) |-> inputs.word_boxes[1][i][1]]

CallerBoxes == [i \in 1..Len(inputs.word_boxes[1]) |-> inputs.word_boxes[1][i][2]]

\* The chunk's words are the caller's and each document token has the
\* caller's box of its word.
ChunkUsesCallers(chunk) ==
    /\ chunk.words = CallerWords
    /\ \A i \in 1..Len(chunk.tokens) :
          chunk.tokens[i].kind = "doc" =>
             /\ chunk.word_ids[i] # None
             /\ chunk.word_ids[i][1] + 1 \in 1..Len(CallerBoxes)
             /\ chunk.bbox[i] = CallerBoxes[chunk.word_ids[i][1] + 1]

\* No boxes but the caller's are emitted with the chunk.
ChunkIsCallers(chunk) ==
    /\ ChunkUsesCallers(chunk)
    /\ chunk.boxes # None => chunk.boxes[1] = CallerBoxes

WordBoxesAndImage ==
    inputs.has_word_boxes /\ inputs.word_boxes # None /\ inputs.image # "None"

\* C2 as stated: when the input carries word_boxes and an image, OCR is
\* never invoked, whatever the feature extractor returns, and the words and
\* boxes emitted with each chunk are exactly the caller's, in the caller's
\* order.
C2_WordBoxesUsedVerbatimWithoutOCR ==
    WordBoxesAndImage =>
        /\ calls.ocr = 0
        /\ model_inputs # None => ChunkIsCallers(model_inputs[1])
        /\ \A i \in 1..Len(all_outputs) : all_outputs[i].words = CallerWords
        /\ pc \in {"spans", "done"} =>
              /\ doc.source = "word_boxes"
              /\ doc.words = CallerWords
              /\ doc.boxes = CallerBoxes

\* What holds of such a call: apply_tesseract is never invoked, and the
\* words and the per-token bbox of every chunk are the caller's.
C2_NoOCRAndCallersWordsPerToken ==
    WordBoxesAndImage =>
        /\ calls.ocr = 0
        /\ model_inputs # None => ChunkUsesCallers(model_inputs[1])
        /\ \A i \in 1..Len(all_outputs) : all_outputs[i].words = CallerWords
        /\ pc \in {"spans", "done"} =>
              /\ doc.source = "word_boxes"
              /\ doc.words = CallerWords
              /\ doc.boxes = CallerBoxes

\* A chunk of such a call carries the feature extractor's boxes.
C2_StaleBoxesEmitted ==
    /\ WordBoxesAndImage
    /\ model_inputs # None
    /\ model_inputs[1].boxes = Some(FeatureLayout.boxes)
    /\ model_inputs[1].boxes # Some(CallerBoxes)
    /\ env.feature_extractor = "layout"

\* C3: a call with image None and no word_boxes whose parameters passed
\* sanitization fails in preprocess with the ValueError "You must provide
\* an image or word_boxes": no chunk is emitted, nothing is tokenized and
\* no forward pass is run.
C3_MissingInputFailsInPreprocess ==
    (/\ pc \notin {"idle", "sanitize", "preprocess"}
     /\ error.stage # "sanitize"
     /\ inputs.image = "None"
     /\ ~inputs.has_word_boxes) =>
        /\ pc = "raised"
        /\ error.stage = "preprocess"
        /\ error.raised = "ValueError"
        /\ error.message = "You must provide an image or word_boxes"
        /\ model_inputs = None
        /\ all_outputs = <<>>
        /\ calls.forward = 0
        /\ calls.tokenizer = 0
        /\ calls.ocr = 0

\* The missing-input error was raised while a feature extractor and
\* Tesseract were available.
C3_Witness ==
    /\ pc = "raised"
    /\ error.message = "You must provide an image or word_boxes"
    /\ inputs.image = "None"
    /\ ~inputs.has_word_boxes
    /\ env.feature_extractor = "layout"
    /\ env.TESSERACT_LOADED
    /\ kwargs.top_k = Some(MaxTopK)

(***************************************************************************)
(* Claims about postprocess (SpecPost).                                    *)
(***************************************************************************)
TopK ==
    IF postprocess_params.top_k = None THEN DefaultTopK
    ELSE postprocess_params.top_k[1]

MaxAnswerLenParam ==
    IF postprocess_params.max_answer_len = None THEN DefaultMaxAnswerLen
    ELSE postprocess_params.max_answer_len[1]

HandleImpossible ==
    postprocess_params.handle_impossible_answer = Some(TRUE)

\* The spans selected for one chunk whose boundary tokens both map to a word.
ValidSpans(output) ==
    LET sel == select_starts_ends(output.start_logits, output.end_logits,
                                  output.p_mask, output.attention_mask,
                                  InitialMinNullScore, TopK, HandleImpossible,
                                  MaxAnswerLenParam)
    IN  {k \in 1..Len(sel.spans) :
            /\ output.word_ids[sel.spans[k].start] # None
            /\ output.word_ids[sel.spans[k].end] # None}

RECURSIVE SumValid(_)
SumValid(i) ==
    IF i = 0 THEN 0 ELSE SumValid(i - 1) + Cardinality(ValidSpans(all_outputs[i]))

\* The valid candidates of a call: the valid spans of every chunk, and
\* the no-answer record when handle_impossible_answer is set.
ValidCandidates ==
    SumValid(Len(all_outputs)) + (IF HandleImpossible THEN 1 ELSE 0)

\* C4: postprocess never returns more than top_k answers, and returns every
\* valid candidate when there are fewer than top_k of them.
C4_AtMostTopKAnswers ==
    post.done =>
        /\ Len(post.result) <= TopK
        /\ ValidCandidates < TopK => Len(post.result) = ValidCandidates

\* Two chunks produced more valid candidates than top_k >= 2, and exactly
\* top_k were returned.
C4_Witness ==
    /\ post.done
    /\ Len(all_outputs) = 2
    /\ TopK >= 2
    /\ ValidCandidates > TopK
    /\ Len(post.result) = TopK

\* C5 as stated: with top_k = 1 the result is one Answer record; with
\* top_k > 1 it is a list of at most top_k answers.
C5_RecordIffTopKIsOne ==
    post.done =>
        /\ TopK = 1 => (post.shape = "record" /\ Len(post.result) = 1)
        /\ TopK > 1 => (post.shape = "list" /\ Len(post.result) <= TopK)

\* C5 (amended): the result is a single Answer record exactly when one
\* answer remains after truncation to top_k, and a list otherwise.  With
\* top_k = 1 that is one record, or the empty list when there is no valid
\* candidate; with top_k > 1 it is a list of 0 or 2..top_k answers, or one
\* record.
C5_RecordIffOneAnswerRemains ==
    post.done =>
        /\ Len(post.result) <= TopK
        /\ post.shape = "record" <=> Len(post.result) = 1
        /\ post.shape = "list" <=> Len(post.result) # 1
        /\ TopK = 1 =>
              \/ post.shape = "record"
              \/ post.shape = "list" /\ post.result = <<>> /\ ValidCandidates = 0
        /\ (TopK > 1 /\ ValidCandidates >= 2) =>
              (post.shape = "list" /\ Len(post.result) \in 2..TopK)

\* A call with top_k > 1 returned a single record.
C5_Witness ==
    /\ post.done
    /\ TopK > 1
    /\ post.shape = "record"
    /\ Len(post.result) = 1
    /\ ~HandleImpossible

IsSynthetic(i) == HandleImpossible /\ post.order[i] = Len(post.answers)

\* Answer a reports a span of some chunk whose boundary tokens map to the
\* words a.start and a.end.
FromMappedSpan(a) ==
    \E c \in 1..Len(all_outputs) :
       \E s, e \in 1..Len(all_outputs[c].word_ids) :
          /\ s <= e
          /\ e - s < MaxAnswerLenParam
          /\ all_outputs[c].word_ids[s] = Some(a.start)
          /\ all_outputs[c].word_ids[e] = Some(a.end)
          /\ a.score = all_outputs[c].start_logits[s] + all_outputs[c].end_logits[e]
          /\ a.answer = Join(SubSeq(doc.words, a.start + 1, a.end + 1))

\* C6: every returned answer other than the synthetic no-answer record has
\* start <= end, end - start < max_answer_len and 0 <= start, end <
\* len(words), and reports a span whose start and end token both map to a
\* word; the synthetic record is start = 0, end = 0, answer = "".
C6_ReturnedSpansAreValid ==
    post.done =>
        \A i \in 1..Len(post.result) :
           LET a == post.result[i]
           IN  IF IsSynthetic(i)
               THEN a.start = 0 /\ a.end = 0 /\ a.answer = <<>>
               ELSE /\ a.start <= a.end
                    /\ a.end - a.start < MaxAnswerLenParam
                    /\ 0 <= a.start
                    /\ a.end < Len(doc.words)
                    /\ FromMappedSpan(a)

\* A two-word answer was returned although a span starting at the CLS
\* token was selected too (and dropped).
C6_Witness ==
    /\ post.done
    /\ \E i \in 1..Len(post.result) :
          /\ ~IsSynthetic(i)
          /\ post.result[i].start = 0
          /\ post.result[i].end = 1
    /\ Len(post.answers) < TopK
    /\ ~HandleImpossible

Selected == {post.order[i] : i \in 1..Len(post.order)}

\* C7: the returned answers are candidates of the merged list in descending
\* score order, candidates of equal score in the order they were merged,
\* and no candidate left out precedes a returned one in that order.
C7_SortedByScoreStable ==
    post.done =>
        /\ Len(post.answers) = ValidCandidates
        /\ Len(post.order) = Len(post.result)
        /\ \A i \in 1..Len(post.result) :
              /\ post.order[i] \in 1..Len(post.answers)
              /\ post.result[i] = post.answers[post.order[i]]
        /\ \A i, j \in 1..Len(post.result) :
              i < j =>
                 /\ post.result[i].score >= post.result[j].score
                 /\ post.result[i].score = post.result[j].score =>
                       post.order[i] < post.order[j]
        /\ \A k \in (1..Len(post.answers)) \ Selected :
              \A i \in 1..Len(post.result) :
                 /\ post.answers[k].score <= post.result[i].score
                 /\ post.answers[k].score = post.result[i].score =>
                       post.order[i] < k

\* Two answers of equal score from two chunks were returned in merge order
\* ahead of an earlier candidate of lower score.
C7_Witness ==
    /\ post.done
    /\ Len(all_outputs) = 2
    /\ Len(post.result) = 2
    /\ post.result[1].score = post.result[2].score
    /\ post.order[1] > 1
    /\ post.answers[1].score < post.result[1].score
    /\ post.result[1].start # post.result[2].start

(***************************************************************************)
(* Claims about the fallback processor and the EasyOCR reader (SpecOcr).   *)
(***************************************************************************)
DummyApplyOcrRaises ==
    (ocr.pc = "done" /\ ocr.backend = "dummy") =>
        /\ ocr.raised = "NoOCRReaderFound"
        /\ ocr.words = <<>>
        /\ ocr.boxes = <<>>

\* C11 as stated: DummyProcessor() succeeds whatever the availability flags
\* are, and every apply_ocr call on a DummyProcessor raises
\* NoOCRReaderFound and returns no words and no boxes.
C11_FallbackConstructsAndAlwaysRaises ==
    /\ (ctor.pc = "done" /\ ctor.kind = "dummy" /\ ctor.args = <<>>) =>
          /\ ctor.raised = ""
          /\ ctor.instance
    /\ DummyApplyOcrRaises

\* What holds of the fallback: its apply_ocr raises NoOCRReaderFound and
\* returns nothing, and its construction never raises NoOCRReaderFound.
C11_FallbackApplyOcrAlwaysRaises ==
    /\ DummyApplyOcrRaises
    /\ (ctor.pc = "done" /\ ctor.kind = "dummy") => ctor.raised # "NoOCRReaderFound"

\* DummyProcessor() raised TypeError with both backends' flags set, before
\* check_if_available was reached.
C11_FallbackConstructionRaisesTypeError ==
    /\ ctor.pc = "done"
    /\ ctor.kind = "dummy"
    /\ ctor.args = <<>>
    /\ ctor.raised = "TypeError"
    /\ ~ctor.checked
    /\ flags.TESSERACT_AVAILABLE /\ flags.EASYOCR_AVAILABLE

\* After every apply_ocr call on an EasyOCRProcessor with the attributes
\* __init__ assigns, one reader has been created for it, in the first
\* call, with gpu = (device >= 0).
LazyReaderOnReceiver ==
    (ocr.pc = "done" /\ ocr.backend = "easyocr") =>
        /\ ocr.n \in 1..MaxCalls
        /\ ocr.reader = "reader"
        /\ ocr.created = 1
        /\ ocr.gpu = Some(ocr.device[1] >= 0)

\* C12 as stated: EasyOCRProcessor() yields an instance without creating a
\* reader; over the apply_ocr calls on it the reader is created exactly
\* once, in the first call, with gpu enabled iff device >= 0, and reused by
\* every later call.
C12_ReaderCreatedOnceOnFirstUse ==
    /\ (ctor.pc = "done" /\ ctor.kind = "easyocr" /\ ctor.args = <<>>) =>
          /\ ctor.raised \in {"", "NoOCRReaderFound"}
          /\ flags.EASYOCR_AVAILABLE => ctor.instance
    /\ LazyReaderOnReceiver

\* What holds of apply_ocr on a receiver that has the attributes: the lazy
\* creation of the reader.
C12_LazyReaderOnGivenReceiver == LazyReaderOnReceiver

\* A later call neither creates a reader nor replaces the one in use.
C12_LaterCallsReuseReader ==
    [][(ocr.pc = "done" /\ ocr.backend = "easyocr") =>
          /\ ocr'.reader = ocr.reader
          /\ ocr'.created = ocr.created
          /\ ocr'.gpu = ocr.gpu
          /\ ocr'.device = ocr.device]_vars

\* Two calls were made on one receiver with device -1: one reader, created
\* without gpu.
C12_SecondCallReusedReader ==
    /\ ocr.pc = "done"
    /\ ocr.backend = "easyocr"
    /\ ocr.n = 2
    /\ ocr.created = 1
    /\ ocr.gpu = Some(FALSE)
    /\ ocr.device = Some(0 - 1)

\* EasyOCRProcessor() raised TypeError although easyocr is available: no
\* instance exists to call apply_ocr on.
C12_NoInstanceToCall ==
    /\ ctor.pc = "done"
    /\ ctor.kind = "easyocr"
    /\ ctor.args = <<>>
    /\ flags.EASYOCR_AVAILABLE
    /\ ctor.raised = "TypeError"
    /\ ~ctor.instance

(***************************************************************************)
(* The no-answer candidate (SpecPost).                                     *)
(***************************************************************************)
\* The null score of a chunk: start logit plus end logit at its CLS token.
NullScore(output) == output.start_logits[1] + output.end_logits[1]

\* The running minimum after the first i chunks, from 1000000.
RECURSIVE RunningMinNull(_)
RunningMinNull(i) ==
    IF i = 0 THEN InitialMinNullScore
    ELSE Min(RunningMinNull(i - 1), NullScore(all_outputs[i]))

NoAnswerRecords ==
    {i \in 1..Len(post.answers) :
        /\ post.answers[i].answer = <<>>
        /\ post.answers[i].start = 0
        /\ post.answers[i].end = 0}

\* C13: with handle_impossible_answer set the merged candidates hold
\* exactly one no-answer record (start 0, end 0, answer ""), added after
\* the chunks' answers, whose score is the minimum of 1000000 and the null
\* scores of all chunks; without it they hold none.
C13_OneNoAnswerCandidateWithMinNullScore ==
    post.done =>
        IF HandleImpossible
        THEN /\ NoAnswerRecords = {Len(post.answers)}
             /\ post.answers[Len(post.answers)].score = RunningMinNull(Len(all_outputs))
             /\ post.min_null_score = RunningMinNull(Len(all_outputs))
             /\ Len(post.answers) = SumValid(Len(all_outputs)) + 1
        ELSE /\ NoAnswerRecords = {}
             /\ Len(post.answers) = SumValid(Len(all_outputs))

\* Two chunks, the first with the smaller null score: the no-answer record
\* carries the first chunk's null score, behind at least one real answer.
C13_Witness ==
    /\ post.done
    /\ HandleImpossible
    /\ Len(all_outputs) = 2
    /\ NullScore(all_outputs[1]) < NullScore(all_outputs[2])
    /\ Len(post.answers) >= 2
    /\ post.answers[Len(post.answers)].score = NullScore(all_outputs[1])
    /\ post.answers[Len(post.answers)].score < InitialMinNullScore

ForwardRaised == pc = "raised" /\ error.stage = "forward"

\* The chunks forwarded so far are the first chunks of the encoding, each
\* forwarded once; a forward that raised was the last one.
EachChunkForwardedOnce ==
    /\ calls.forward = Len(all_outputs) + (IF ForwardRaised THEN 1 ELSE 0)
    /\ calls.forward <= Len(encoding)
    /\ \A i \in 1..Len(all_outputs) :
          all_outputs[i].word_ids = WordIds(encoding[i])

\* An error of the OCR engine ended the call after that one invocation.
OCRErrorEndsCall ==
    (calls.ocr = 1 /\ error.raised = "TesseractError") =>
        /\ pc = "raised"
        /\ calls.tokenizer = 0
        /\ calls.forward = 0
        /\ model_inputs = None

=============================================================================
